---- MODULE Spec2Model ----
(***************************************************************************)
(* Model of the Uber Eats menu scraper: the Flask handler scrape_menu      *)
(* (src/app.py), the UberEatsScraper session and its scrape steps          *)
(* (src/scraper.py) and the configuration they read (src/config.py).       *)
(*                                                                         *)
(* Python strings are TLA+ strings, taken apart with Len and SubSeq.  The  *)
(* module is ASCII, so the bullet U+2022 that the scraper splits prices on *)
(* and joins descriptions with is written as the character "|".            *)
(***************************************************************************)
EXTENDS Naturals, Sequences, FiniteSets, TLC

(***************************************************************************)
(* Python str operations                                                   *)
(***************************************************************************)
Bullet == "|"

Ch(s, i) == SubSeq(s, i, i)

IsSpace(c) == c \in {" ", "\n", "\t", "\r"}

\* sub in s
Contains(s, sub) ==
    \E i \in 1..(Len(s) + 1) :
        /\ i + Len(sub) - 1 <= Len(s)
        /\ SubSeq(s, i, i + Len(sub) - 1) = sub

\* s.startswith(p)
StartsWith(s, p) == Len(p) <= Len(s) /\ SubSeq(s, 1, Len(p)) = p

RECURSIVE LStrip(_)
LStrip(s) == IF Len(s) > 0 /\ IsSpace(Ch(s, 1)) THEN LStrip(SubSeq(s, 2, Len(s))) ELSE s

RECURSIVE RStrip(_)
RStrip(s) ==
    IF Len(s) > 0 /\ IsSpace(Ch(s, Len(s))) THEN RStrip(SubSeq(s, 1, Len(s) - 1)) ELSE s

\* s.strip()
Strip(s) == RStrip(LStrip(s))

\* index of the first occurrence of the one-character string c in s at or
\* after position i, or 0
RECURSIVE FindFrom(_, _, _)
FindFrom(s, c, i) ==
    IF i > Len(s) THEN 0
    ELSE IF Ch(s, i) = c THEN i
    ELSE FindFrom(s, c, i + 1)

\* s.split(c) for a one-character separator c
RECURSIVE Split(_, _)
Split(s, c) ==
    LET k == FindFrom(s, c, 1)
    IN  IF k = 0 THEN << s >>
        ELSE << SubSeq(s, 1, k - 1) >> \o Split(SubSeq(s, k + 1, Len(s)), c)

UpperCase == "ABCDEFGHIJKLMNOPQRSTUVWXYZ"
LowerCase == "abcdefghijklmnopqrstuvwxyz"

LowerCh(c) ==
    LET k == FindFrom(UpperCase, c, 1)
    IN  IF k = 0 THEN c ELSE Ch(LowerCase, k)

\* s.lower()
RECURSIVE Lower(_)
Lower(s) == IF Len(s) = 0 THEN "" ELSE LowerCh(Ch(s, 1)) \o Lower(SubSeq(s, 2, Len(s)))

\* s.replace(old, '') for a non-empty old
RECURSIVE Remove(_, _)
Remove(s, old) ==
    IF Len(s) = 0 THEN ""
    ELSE IF StartsWith(s, old) THEN Remove(SubSeq(s, Len(old) + 1, Len(s)), old)
    ELSE Ch(s, 1) \o Remove(SubSeq(s, 2, Len(s)), old)

\* sep.join(parts)
RECURSIVE Join(_, _)
Join(parts, sep) ==
    IF Len(parts) = 0 THEN ""
    ELSE IF Len(parts) = 1 THEN parts[1]
    ELSE parts[1] \o sep \o Join(Tail(parts), sep)

\* [f(x) for x in seq if keep(x)]
RECURSIVE StrippedNonEmpty(_)
StrippedNonEmpty(seq) ==
    IF Len(seq) = 0 THEN << >>
    ELSE (IF Strip(seq[1]) # "" THEN << Strip(seq[1]) >> ELSE << >>)
         \o StrippedNonEmpty(Tail(seq))

(***************************************************************************)
(* config.py                                                               *)
(***************************************************************************)
PLACEHOLDER_PATTERNS ==
    << "placeholder", "no-image", "default", "missing", "empty", "null", "undefined" >>

\* SELECTORS['restaurant_name'].split(', ')
RestaurantNameSelectors == << "h1", "[data-testid*=\"store\"]" >>

(***************************************************************************)
(* UberEatsScraper._validate_image_fast                                    *)
(***************************************************************************)
placeholder_urls ==
    << "data:image", "placeholder", "default", "no-image", "null", "undefined" >>

ImageExtensions == << ".jpg", ".jpeg", ".png", ".webp", ".gif" >>

\* any(p in s for p in patterns)
ContainsAny(s, patterns) == \E k \in 1..Len(patterns) : Contains(s, patterns[k])

IsCdnUrl(image_url) ==
    Contains(image_url, "tb-static.uber.com") /\ Contains(image_url, "processed_images")

\* faulty variant of _validate_image_fast: the CDN rule is left out
_validate_image_fast_no_cdn(image_url) ==
    LET url_lower == Lower(image_url)
    IN  IF image_url = "" THEN FALSE
        ELSE IF ContainsAny(url_lower, PLACEHOLDER_PATTERNS) THEN FALSE
        ELSE IF ContainsAny(url_lower, placeholder_urls) THEN FALSE
        ELSE ContainsAny(url_lower, ImageExtensions)

_validate_image_fast(image_url) ==
    LET url_lower == Lower(image_url)
    IN  IF image_url = "" THEN FALSE
        ELSE IF ContainsAny(url_lower, PLACEHOLDER_PATTERNS) THEN FALSE
        ELSE IF ContainsAny(url_lower, placeholder_urls) THEN FALSE
        ELSE IF IsCdnUrl(image_url) THEN TRUE
        ELSE IF ContainsAny(url_lower, ImageExtensions) THEN TRUE
        ELSE FALSE

(***************************************************************************)
(* UberEatsScraper._extract_item_details                                   *)
(*                                                                         *)
(* An element of the page is a record                                      *)
(*   nodes : the text of its text nodes, in document order                 *)
(*   img   : the src of its first nested img, "" when it has none          *)
(*   stale : the driver raises when a script is run on the element         *)
(*   imgRaises : the driver raises on the image query only                 *)
(***************************************************************************)
None == [isNone |-> TRUE]

\* the TreeWalker script: every text node followed by a newline
RECURSIVE FlattenText(_)
FlattenText(nodes) ==
    IF Len(nodes) = 0 THEN "" ELSE nodes[1] \o "\n" \o FlattenText(Tail(nodes))

\* lines = [line.strip() for line in full_text.split('\n') if line.strip()]
TextLines(full_text) == StrippedNonEmpty(Split(full_text, "\n"))

\* first pass: the first line containing '$' gives the price
RECURSIVE FindPrice(_)
FindPrice(lines) ==
    IF Len(lines) = 0 THEN ""
    ELSE IF Contains(lines[1], "$")
         THEN "$" \o Strip(Split(Split(lines[1], "$")[2], Bullet)[1])
         ELSE FindPrice(Tail(lines))

\* faulty variant of QualifiesAsNameLine: lines starting with '#' are not skipped
QualifiesAsNameLineHash(line) ==
    /\ ~StartsWith(line, "$")
    /\ ~StartsWith(line, "Popular")
    /\ ~StartsWith(line, "most liked")
    /\ ~StartsWith(line, "Plus small")
    /\ Len(line) > 1

\* the condition of the second pass
QualifiesAsNameLine(line) ==
    /\ ~StartsWith(line, "$")
    /\ ~StartsWith(line, "#")
    /\ ~StartsWith(line, "Popular")
    /\ ~StartsWith(line, "most liked")
    /\ ~StartsWith(line, "Plus small")
    /\ Len(line) > 1

\* second pass: folds the lines into [name, description_parts]
RECURSIVE NameAndDescription(_, _, _)
NameAndDescription(lines, name, description_parts) ==
    IF Len(lines) = 0 THEN [name |-> name, description_parts |-> description_parts]
    ELSE LET line == lines[1]
         IN  IF QualifiesAsNameLine(line)
             THEN IF name = ""
                  THEN NameAndDescription(Tail(lines), line, description_parts)
                  ELSE IF line # name
                       THEN NameAndDescription(Tail(lines), name,
                                               Append(description_parts, line))
                       ELSE NameAndDescription(Tail(lines), name, description_parts)
             ELSE NameAndDescription(Tail(lines), name, description_parts)

\* 'image_valid' of the returned item
ItemImageValid(image_url) == image_url # ""

_extract_item_details(element, index) ==
    IF element.stale THEN None
    ELSE LET full_text == FlattenText(element.nodes)
             lines == TextLines(full_text)
             price == FindPrice(lines)
             nd == NameAndDescription(lines, "", << >>)
             name == IF nd.name = "" /\ Len(lines) > 0 THEN lines[1] ELSE nd.name
             image_url == IF element.imgRaises THEN "" ELSE element.img
         IN  IF Strip(full_text) = "" THEN None
             ELSE IF name = "" THEN None
             ELSE [isNone |-> FALSE,
                   index |-> index,
                   name |-> name,
                   description |-> Join(nd.description_parts, " " \o Bullet \o " "),
                   price |-> price,
                   image_url |-> image_url,
                   has_image |-> image_url # "",
                   image_valid |-> ItemImageValid(image_url)]

(***************************************************************************)
(* UberEatsScraper._extract_menu_items                                     *)
(*                                                                         *)
(* A page is a record                                                      *)
(*   items   : the elements matching a[href*="item"], in document order    *)
(*   menu    : the elements matching div/article/section[class*='menu']    *)
(*   generic : the elements matching div, article, section                 *)
(*   popup   : "none", "hidden" or "shown" (the Close button)              *)
(*   h1, store : the elements the restaurant-name selectors match, each    *)
(*               [present, text]                                           *)
(*   title   : the document title                                          *)
(* faults is the set of driver calls of the function that raise, numbered  *)
(* in the order the code makes them.                                       *)
(***************************************************************************)
GenericLimit == 50

Min(a, b) == IF a < b THEN a ELSE b

\* the elements the loop runs over; aborted: a fallback lookup raised into
\* the outer handler of the function; raised: some lookup raised
ItemElements(page, faults) ==
    LET configured == IF 1 \in faults THEN << >> ELSE page.items
        first == 1 \in faults
    IN  IF Len(configured) > 0
        THEN [elements |-> configured, aborted |-> FALSE, raised |-> first]
        ELSE IF 2 \in faults THEN [elements |-> << >>, aborted |-> TRUE, raised |-> TRUE]
        ELSE IF Len(page.menu) > 0
        THEN [elements |-> page.menu, aborted |-> FALSE, raised |-> first]
        ELSE IF 3 \in faults THEN [elements |-> << >>, aborted |-> TRUE, raised |-> TRUE]
        ELSE [elements |-> SubSeq(page.generic, 1, Min(GenericLimit, Len(page.generic))),
              aborted |-> FALSE, raised |-> first]

\* faulty variant of NotSeen: the duplicate check always passes
NotSeenAlways(item_name, seen_items) == TRUE

\* item_name not in seen_items
NotSeen(item_name, seen_items) == item_name \notin seen_items

\* faulty variant of ItemLoop: an element without item ends the loop
RECURSIVE ItemLoopAbort(_, _, _, _)
ItemLoopAbort(item_elements, i, menu_items, seen_items) ==
    IF i > Len(item_elements) THEN menu_items
    ELSE LET item_data == _extract_item_details(item_elements[i], i - 1)
         IN  IF item_data # None /\ item_data.name # ""
             THEN LET item_name == Strip(item_data.name)
                  IN  IF item_name \notin seen_items
                      THEN ItemLoopAbort(item_elements, i + 1,
                                         Append(menu_items, item_data),
                                         seen_items \cup {item_name})
                      ELSE ItemLoopAbort(item_elements, i + 1, menu_items, seen_items)
             ELSE menu_items

\* the for loop over item_elements, from element i on
RECURSIVE ItemLoop(_, _, _, _)
ItemLoop(item_elements, i, menu_items, seen_items) ==
    IF i > Len(item_elements) THEN menu_items
    ELSE LET item_data == _extract_item_details(item_elements[i], i - 1)
         IN  IF item_data # None /\ item_data.name # ""
             THEN LET item_name == Strip(item_data.name)
                  IN  IF NotSeen(item_name, seen_items)
                      THEN ItemLoop(item_elements, i + 1, Append(menu_items, item_data),
                                    seen_items \cup {item_name})
                      ELSE ItemLoop(item_elements, i + 1, menu_items, seen_items)
             ELSE ItemLoop(item_elements, i + 1, menu_items, seen_items)

_extract_menu_items(page, faults) ==
    LET found == ItemElements(page, faults)
    IN  [menu_items |-> IF found.aborted THEN << >>
                        ELSE ItemLoop(found.elements, 1, << >>, {}),
         item_elements |-> found.elements,
         raised |-> \/ found.raised
                    \/ \E k \in 1..Len(found.elements) :
                          found.elements[k].stale \/ found.elements[k].imgRaises]

(***************************************************************************)
(* UberEatsScraper._extract_restaurant_name                                *)
(***************************************************************************)
UnknownRestaurant == "Unknown Restaurant"

\* the page element a restaurant-name selector finds
SelectorElement(page, k) == IF k = 1 THEN page.h1 ELSE page.store

\* the selector loop from selector k on: [name, raised, returned]
RECURSIVE TrySelectors(_, _, _)
TrySelectors(page, faults, k) ==
    IF k > Len(RestaurantNameSelectors)
    THEN [name |-> "", raised |-> FALSE, returned |-> FALSE]
    ELSE IF k \in faults THEN [name |-> "", raised |-> TRUE, returned |-> FALSE]
    ELSE LET element == SelectorElement(page, k)
             name == Strip(element.text)
         IN  IF element.present /\ name # ""
             THEN [name |-> name, raised |-> FALSE, returned |-> TRUE]
             ELSE TrySelectors(page, faults, k + 1)

TitleFault == Len(RestaurantNameSelectors) + 1

\* faulty variant of _extract_restaurant_name: the except branch returns the name
\* found so far, which is empty
_extract_restaurant_name_empty(page, faults) ==
    LET sel == TrySelectors(page, faults, 1)
    IN  IF sel.raised THEN [name |-> "", raised |-> TRUE]
        ELSE IF sel.returned THEN [name |-> sel.name, raised |-> FALSE]
        ELSE IF TitleFault \in faults THEN [name |-> "", raised |-> TRUE]
        ELSE IF page.title # "" /\ Contains(page.title, "Uber Eats")
             THEN [name |-> Strip(Remove(page.title, "Uber Eats")), raised |-> FALSE]
        ELSE [name |-> UnknownRestaurant, raised |-> FALSE]

_extract_restaurant_name(page, faults) ==
    LET sel == TrySelectors(page, faults, 1)
    IN  IF sel.raised THEN [name |-> UnknownRestaurant, raised |-> TRUE]
        ELSE IF sel.returned THEN [name |-> sel.name, raised |-> FALSE]
        ELSE IF TitleFault \in faults THEN [name |-> UnknownRestaurant, raised |-> TRUE]
        ELSE IF page.title # "" /\ Contains(page.title, "Uber Eats")
             THEN [name |-> Strip(Remove(page.title, "Uber Eats")), raised |-> FALSE]
        ELSE [name |-> UnknownRestaurant, raised |-> FALSE]

(***************************************************************************)
(* UberEatsScraper._scroll_to_load_all_items                               *)
(*                                                                         *)
(* The driver calls, in order: 1 the initial count; then, when it is       *)
(* positive, for each of the ScrollCount rounds a scroll to the bottom and *)
(* a count, and the scroll to the top; last the final count.  faultAt is   *)
(* the first call that raises, 0 for none.  The value is the sequence of   *)
(* scroll operations issued.                                               *)
(***************************************************************************)
ScrollCount == 3

RECURSIVE ScrollRounds(_, _, _)
ScrollRounds(round, call, faultAt) ==
    IF round > ScrollCount
    THEN IF faultAt = call THEN [ops |-> << >>, raised |-> TRUE]
         ELSE [ops |-> << "top" >>, raised |-> faultAt = call + 1]
    ELSE IF faultAt = call THEN [ops |-> << >>, raised |-> TRUE]
    ELSE IF faultAt = call + 1 THEN [ops |-> << "bottom" >>, raised |-> TRUE]
    ELSE LET rest == ScrollRounds(round + 1, call + 2, faultAt)
         IN  [ops |-> << "bottom" >> \o rest.ops, raised |-> rest.raised]

\* the number of driver calls of a run in which none raises
ScrollCalls(page) == IF Len(page.items) > 0 THEN 2 * ScrollCount + 3 ELSE 2

\* faulty variant of _scroll_to_load_all_items: the initial count is not tested
_scroll_to_load_all_items_always(page, faultAt) ==
    IF faultAt = 1 THEN [ops |-> << >>, raised |-> TRUE]
    ELSE ScrollRounds(1, 2, faultAt)

_scroll_to_load_all_items(page, faultAt) ==
    IF faultAt = 1 THEN [ops |-> << >>, raised |-> TRUE]
    ELSE IF Len(page.items) > 0 THEN ScrollRounds(1, 2, faultAt)
    ELSE [ops |-> << >>, raised |-> faultAt = 2]

(***************************************************************************)
(* Inputs: request bodies, page elements, pages                            *)
(***************************************************************************)
MaxItems == 3

Threads == {1, 2}

\* A request body as request.get_json() sees it.  json: "malformed" (get_json
\* raises), "null" and "emptyobject" (falsy values), "array" (a non-empty
\* list) or "object"; urlType: what the object holds under 'url'.
Body(json, urlType, url) == [json |-> json, urlType |-> urlType, url |-> url]

UrlStrings ==
    { "", "   ", "https://example.com/menu", "https://www.UberEats.com/store/a",
      "ubereats.com", "  https://www.ubereats.com/ca/store/bao-house  " }

Bodies ==
    { Body("malformed", "absent", ""), Body("null", "absent", ""),
      Body("emptyobject", "absent", ""), Body("array", "absent", ""),
      Body("object", "absent", ""), Body("object", "null", ""),
      Body("object", "number", "") }
    \cup { Body("object", "string", u) : u \in UrlStrings }

Element(nodes, img, stale, imgRaises) ==
    [nodes |-> nodes, img |-> img, stale |-> stale, imgRaises |-> imgRaises]

CdnImage == "https://tb-static.uber.com/prod/image-proc/processed_images/ab12/cd34.jpeg"
PlaceholderImage == "https://cdn.example.com/img/placeholder.png"

Dumplings == Element(<< "#1 most liked", "302 Dumplings", "$7.49 | 89% (192)" >>,
                     CdnImage, FALSE, FALSE)
\* the same dish listed a second time, in another section and at another price
DumplingsAgain == Element(<< " 302 Dumplings ", "Steamed", "$8.99" >>,
                          PlaceholderImage, FALSE, FALSE)
Noodles == Element(<< "Popular", "Beef Noodles\nSpicy | Large", "$12.00" >>,
                   "", FALSE, FALSE)
StaleElement == Element(<< "Spring Roll", "$3.00" >>, CdnImage, TRUE, FALSE)
\* an element on which only the image query of the parser raises
ImageQueryFails == Element(<< "Pork Bun", "$5.00" >>, CdnImage, FALSE, TRUE)

ElementKinds == { Dumplings, DumplingsAgain, Noodles, StaleElement }

\* all sequences over S of length at most n
RECURSIVE SeqsUpTo(_, _)
SeqsUpTo(S, n) ==
    IF n = 0 THEN { << >> }
    ELSE LET shorter == SeqsUpTo(S, n - 1)
         IN  shorter \cup { Append(q, e) : q \in shorter, e \in S }

NameElement(present, text) == [present |-> present, text |-> text]

Page(items, menu, generic, popup, h1, store, title) ==
    [items |-> items, menu |-> menu, generic |-> generic, popup |-> popup,
     h1 |-> h1, store |-> store, title |-> title]

NoPage == Page(<< >>, << >>, << >>, "none", NameElement(FALSE, ""),
               NameElement(FALSE, ""), "")

\* pages with menu items, named by their h1
ItemPages ==
    { Page(q, << >>, << Noodles >>, "shown", NameElement(TRUE, " Bao House "),
           NameElement(FALSE, ""), "Bao House | Uber Eats")
      : q \in SeqsUpTo(ElementKinds, MaxItems) \ { << >> } }

\* pages without menu items, with the other sources of the restaurant name
BarePages ==
    { Page(<< >>, << Noodles, Noodles >>, << Dumplings >>, "hidden",
           NameElement(TRUE, "  "), NameElement(TRUE, "Store 12"), "Uber Eats"),
      Page(<< >>, << >>, << Dumplings, Noodles >>, "none",
           NameElement(FALSE, ""), NameElement(FALSE, ""), "Order Bao House | Uber Eats"),
      Page(<< >>, << >>, << >>, "none",
           NameElement(FALSE, ""), NameElement(TRUE, ""), "Uber Eats"),
      Page(<< >>, << ImageQueryFails, StaleElement, Dumplings, Noodles >>, << >>, "none",
           NameElement(TRUE, "Bao House"), NameElement(FALSE, ""), ""),
      Page(<< >>, << >>, << >>, "shown",
           NameElement(FALSE, ""), NameElement(FALSE, ""), "Not found") }

Pages == ItemPages \cup BarePages

\* the bodies and pages of the concurrent requests
RaceBodies ==
    { Body("object", "string", "https://www.ubereats.com/ca/store/bao-house"),
      Body("object", "string", "https://example.com/menu") }


RacePages ==
    { Page(<< Dumplings, DumplingsAgain >>, << >>, << >>, "shown",
           NameElement(TRUE, "Bao House"), NameElement(FALSE, ""),
           "Bao House | Uber Eats") }

(***************************************************************************)
(* State                                                                   *)
(*                                                                         *)
(* scraper  : the module-level handle of app.py, 0 for None, else the id   *)
(*            of a session; the session a thread creates has the thread's  *)
(*            id                                                           *)
(* session  : per session id, the driver ("none", "running", "quit"),      *)
(*            whether the constructor returned the object, the page the    *)
(*            driver shows, the number of close() calls made on it and the *)
(*            threads that made them                                       *)
(* pc       : per thread, the statement of scrape_menu or scrape_restaurant*)
(*            it is at                                                     *)
(* body, url: the request body and the validated url                       *)
(* self     : the session scrape_restaurant was called on                  *)
(* restaurant_name, result : locals of scrape_restaurant / scrape_menu     *)
(* excp     : the exception propagating, if any                            *)
(* resp     : the response returned (or about to be, inside finally)       *)
(* thrown   : history, the steps at which the driver raised an error, and  *)
(*            "timeout" when the wait for an item element timed out        *)
(* outer    : history, the outer handler of scrape_restaurant ran          *)
(* logv     : history, the steps of scrape_restaurant in the order begun   *)
(* scanned  : history, the item_elements the extraction loop ran over      *)
(* elem, item, image_url, image_valid, applied : argument and value of the *)
(*            item parser and the image heuristic when run on their own    *)
(***************************************************************************)
VARIABLES scraper, session, pc, body, url, self, restaurant_name, result, excp,
          resp, thrown, outer, logv, scanned,
          elem, item, image_url, image_valid, applied

handlerVars == << scraper, session, pc, body, url, self, restaurant_name, result,
                  excp, resp, thrown, outer, logv, scanned >>
pureVars == << elem, item, image_url, image_valid, applied >>
vars == << handlerVars, pureVars >>

NoSession == [driver |-> "none", constructed |-> FALSE, page |-> NoPage,
              closeCalls |-> 0, closers |-> {}]
NoBody == Body("null", "absent", "")
NoExc == [raised |-> FALSE, msg |-> ""]
Exc(msg) == [raised |-> TRUE, msg |-> msg]
NoResult == [keys |-> {}, url |-> "", error |-> "", restaurant_name |-> "",
             menu_items |-> << >>]
JsonNull == [null |-> TRUE]
Json(v) == [null |-> FALSE, value |-> v]
NoResp == [status |-> 0, keys |-> {}, success |-> FALSE, data |-> JsonNull,
           error |-> JsonNull]

\* jsonify({'success': .., 'data': .., 'error': .., 'timestamp': ..}), status
Envelope(status, success, data, error) ==
    [status |-> status, keys |-> {"success", "data", "error", "timestamp"},
     success |-> success, data |-> data, error |-> error]

InitHandler ==
    /\ scraper = 0
    /\ session = [t \in Threads |-> NoSession]
    /\ pc = [t \in Threads |-> "idle"]
    /\ body = [t \in Threads |-> NoBody]
    /\ url = [t \in Threads |-> ""]
    /\ self = [t \in Threads |-> 0]
    /\ restaurant_name = [t \in Threads |-> ""]
    /\ result = [t \in Threads |-> NoResult]
    /\ excp = [t \in Threads |-> NoExc]
    /\ resp = [t \in Threads |-> NoResp]
    /\ thrown = [t \in Threads |-> {}]
    /\ outer = [t \in Threads |-> FALSE]
    /\ logv = [t \in Threads |-> << >>]
    /\ scanned = [t \in Threads |-> << >>]

InitPure ==
    /\ elem = Element(<< >>, "", FALSE, FALSE)
    /\ item = None
    /\ image_url = ""
    /\ image_valid = FALSE
    /\ applied = FALSE

Init == InitHandler /\ InitPure

(***************************************************************************)
(* scrape_menu, up to the call of scrape_restaurant                        *)
(***************************************************************************)
\* the outcome of lines 60-87 of app.py on a body
ValidateRequest(b) ==
    IF b.json = "malformed" THEN "raise"
    ELSE IF b.json \in {"null", "emptyobject"} THEN "no_json"
    ELSE IF b.json = "array" THEN "raise"
    ELSE IF b.urlType = "absent" THEN "url_required"
    ELSE IF b.urlType \in {"null", "number"} THEN "raise"
    ELSE IF Strip(b.url) = "" THEN "url_required"
    ELSE IF ~Contains(Strip(b.url), "ubereats.com") THEN "invalid_url"
    ELSE "ok"

ValidationError(outcome) ==
    IF outcome = "no_json" THEN "No JSON data provided"
    ELSE IF outcome = "url_required" THEN "URL is required"
    ELSE "Please provide a valid Uber Eats URL"

\* a request arrives
Receive(t, bodies) ==
    /\ pc[t] = "idle"
    /\ \E b \in bodies : body' = [body EXCEPT ![t] = b]
    /\ pc' = [pc EXCEPT ![t] = "validate"]
    /\ UNCHANGED << scraper, session, url, self, restaurant_name, result, excp, resp,
                    thrown, outer, logv, scanned, pureVars >>

Validate(t) ==
    /\ pc[t] = "validate"
    /\ LET outcome == ValidateRequest(body[t])
       IN  IF outcome = "raise"
           THEN /\ excp' = [excp EXCEPT ![t] = Exc("bad request body")]
                /\ pc' = [pc EXCEPT ![t] = "except"]
                /\ UNCHANGED << url, resp >>
           ELSE IF outcome = "ok"
           THEN /\ url' = [url EXCEPT ![t] = Strip(body[t].url)]
                /\ pc' = [pc EXCEPT ![t] = "construct"]
                /\ UNCHANGED << excp, resp >>
           ELSE /\ resp' = [resp EXCEPT ![t] =
                              Envelope(400, FALSE, JsonNull,
                                       Json(ValidationError(outcome)))]
                /\ pc' = [pc EXCEPT ![t] = "returned"]
                /\ UNCHANGED << url, excp >>
    /\ UNCHANGED << scraper, session, body, self, restaurant_name, result, thrown,
                    outer, logv, scanned, pureVars >>

\* scraper = UberEatsScraper(): _setup_driver starts the driver ("ok"), fails
\* to start one ("no_driver"), or raises after it started one ("setup_raises")
SetupOutcomes == {"ok", "no_driver", "setup_raises"}

Construct(t) ==
    /\ pc[t] = "construct"
    /\ \E o \in SetupOutcomes :
         /\ session' = [session EXCEPT
                           ![t].driver = IF o = "no_driver" THEN "none" ELSE "running",
                           ![t].constructed = (o = "ok")]
         /\ IF o = "ok"
            THEN /\ scraper' = t
                 /\ pc' = [pc EXCEPT ![t] = "call"]
                 /\ UNCHANGED excp
            ELSE /\ excp' = [excp EXCEPT ![t] = Exc("driver setup failed")]
                 /\ pc' = [pc EXCEPT ![t] = "except"]
                 /\ UNCHANGED scraper
    /\ UNCHANGED << body, url, self, restaurant_name, result, resp, thrown, outer,
                    logv, scanned, pureVars >>

\* result = scraper.scrape_restaurant(url): the handle is read again
CallScrape(t) ==
    /\ pc[t] = "call"
    /\ IF scraper = 0
       THEN /\ excp' = [excp EXCEPT ![t] = Exc("'NoneType' object has no attribute")]
            /\ pc' = [pc EXCEPT ![t] = "finally"]
            /\ UNCHANGED self
       ELSE /\ self' = [self EXCEPT ![t] = scraper]
            /\ pc' = [pc EXCEPT ![t] = "navigate"]
            /\ UNCHANGED excp
    /\ UNCHANGED << scraper, session, body, url, restaurant_name, result, resp, thrown,
                    outer, logv, scanned, pureVars >>

(***************************************************************************)
(* UberEatsScraper.scrape_restaurant                                       *)
(***************************************************************************)
\* the driver of the session the thread scrapes with was quit
Dead(t) == session[self[t]].driver # "running"

\* whether a driver call of a step raises an error: forced once the driver
\* was quit, else a free choice where errors are considered (faulty)
FaultChoices(t, faulty) ==
    IF Dead(t) THEN {TRUE} ELSE IF faulty THEN BOOLEAN ELSE {FALSE}

\* at which driver call (1..n) a step with n calls raises, 0 for none
FaultPoints(t, faulty, n) ==
    IF Dead(t) THEN {1} ELSE IF faulty THEN 0..n ELSE {0}

\* faulty variant of ErrorResult: the record of the outer handler lacks 'error'
ErrorResultNoError(u, msg) ==
    [keys |-> {"url", "restaurant_name", "menu_items"},
     url |-> u, error |-> "", restaurant_name |-> "Unknown", menu_items |-> << >>]

ErrorResult(u, msg) ==
    [keys |-> {"url", "error", "restaurant_name", "menu_items"},
     url |-> u, error |-> msg, restaurant_name |-> "Unknown", menu_items |-> << >>]

RestaurantData(u, name, menu_items) ==
    [keys |-> {"url", "restaurant_name", "menu_items", "scraped_at"},
     url |-> u, error |-> "", restaurant_name |-> name, menu_items |-> menu_items]

\* self.driver.get(url)
Navigate(t, pages, faulty) ==
    /\ pc[t] = "navigate"
    /\ logv' = [logv EXCEPT ![t] = Append(@, "navigate")]
    /\ \E fault \in FaultChoices(t, faulty) :
         IF fault
         THEN /\ thrown' = [thrown EXCEPT ![t] = @ \cup {"navigate"}]
              /\ outer' = [outer EXCEPT ![t] = TRUE]
              /\ result' = [result EXCEPT ![t] = ErrorResult(url[t], "navigation failed")]
              /\ pc' = [pc EXCEPT ![t] = "respond"]
              /\ UNCHANGED session
         ELSE /\ \E p \in pages : session' = [session EXCEPT ![self[t]].page = p]
              /\ pc' = [pc EXCEPT ![t] = "settle"]
              /\ UNCHANGED << thrown, outer, result >>
    /\ UNCHANGED << scraper, body, url, self, restaurant_name, excp, resp,
                    scanned, pureVars >>

\* faulty variant of Settle: the popup dismissal is passed over
SettleSkipsPopup(t) ==
    /\ pc[t] = "settle"
    /\ logv' = [logv EXCEPT ![t] = Append(@, "settle")]
    /\ pc' = [pc EXCEPT ![t] = "wait"]
    /\ UNCHANGED << scraper, session, body, url, self, restaurant_name, result, excp,
                    resp, thrown, outer, scanned, pureVars >>

\* time.sleep(5)
Settle(t) ==
    /\ pc[t] = "settle"
    /\ logv' = [logv EXCEPT ![t] = Append(@, "settle")]
    /\ pc' = [pc EXCEPT ![t] = "popup"]
    /\ UNCHANGED << scraper, session, body, url, self, restaurant_name, result, excp,
                    resp, thrown, outer, scanned, pureVars >>

\* the popup block: every exception is swallowed
Popup(t, faulty) ==
    /\ pc[t] = "popup"
    /\ logv' = [logv EXCEPT ![t] = Append(@, "popup")]
    /\ \E fault \in FaultChoices(t, faulty) :
         IF fault
         THEN /\ thrown' = [thrown EXCEPT ![t] = @ \cup {"popup"}]
              /\ UNCHANGED session
         ELSE /\ session' = [session EXCEPT ![self[t]].page.popup =
                               IF @ = "shown" THEN "none" ELSE @]
              /\ UNCHANGED thrown
    /\ pc' = [pc EXCEPT ![t] = "wait"]
    /\ UNCHANGED << scraper, body, url, self, restaurant_name, result, excp, resp,
                    outer, scanned, pureVars >>

\* self.wait.until(...): the condition never holds on a page without item
\* elements and until() raises TimeoutException, which is swallowed
\* ("timeout"); any other error of the driver while polling ("wait") reaches
\* the outer handler
Wait(t, faulty) ==
    /\ pc[t] = "wait"
    /\ logv' = [logv EXCEPT ![t] = Append(@, "wait")]
    /\ \E fault \in FaultChoices(t, faulty) :
         IF fault
         THEN /\ thrown' = [thrown EXCEPT ![t] = @ \cup {"wait"}]
              /\ outer' = [outer EXCEPT ![t] = TRUE]
              /\ result' = [result EXCEPT ![t] = ErrorResult(url[t], "driver error")]
              /\ pc' = [pc EXCEPT ![t] = "respond"]
         ELSE /\ thrown' = [thrown EXCEPT ![t] =
                              IF Len(session[self[t]].page.items) = 0
                              THEN @ \cup {"timeout"} ELSE @]
              /\ pc' = [pc EXCEPT ![t] = "scroll"]
              /\ UNCHANGED << outer, result >>
    /\ UNCHANGED << scraper, session, body, url, self, restaurant_name, excp, resp,
                    scanned, pureVars >>

Scroll(t, faulty) ==
    /\ pc[t] = "scroll"
    /\ \E faultAt \in FaultPoints(t, faulty, ScrollCalls(session[self[t]].page)) :
         LET r == _scroll_to_load_all_items(session[self[t]].page, faultAt)
         IN  /\ logv' = [logv EXCEPT ![t] = Append(@, "scroll") \o r.ops]
             /\ thrown' = [thrown EXCEPT ![t] =
                             IF r.raised THEN @ \cup {"scroll"} ELSE @]
    /\ pc' = [pc EXCEPT ![t] = "name"]
    /\ UNCHANGED << scraper, session, body, url, self, restaurant_name, result, excp,
                    resp, outer, scanned, pureVars >>

\* 'restaurant_name': self._extract_restaurant_name()
Name(t, faulty) ==
    /\ pc[t] = "name"
    /\ logv' = [logv EXCEPT ![t] = Append(@, "name")]
    /\ \E faultAt \in FaultPoints(t, faulty, TitleFault) :
         LET r == _extract_restaurant_name(session[self[t]].page, {faultAt} \ {0})
         IN  /\ restaurant_name' = [restaurant_name EXCEPT ![t] = r.name]
             /\ thrown' = [thrown EXCEPT ![t] = IF r.raised THEN @ \cup {"name"} ELSE @]
    /\ pc' = [pc EXCEPT ![t] = "items"]
    /\ UNCHANGED << scraper, session, body, url, self, result, excp, resp, outer,
                    scanned, pureVars >>

\* 'menu_items': self._extract_menu_items(), and the return of the record
Items(t, faulty) ==
    /\ pc[t] = "items"
    /\ logv' = [logv EXCEPT ![t] = Append(@, "items")]
    /\ \E faults \in IF Dead(t) THEN {{1, 2, 3}}
                  ELSE IF faulty THEN {{}, {1}, {2}, {3}} ELSE {{}} :
         \E r \in { _extract_menu_items(session[self[t]].page, faults) } :
             /\ result' = [result EXCEPT ![t] =
                             RestaurantData(url[t], restaurant_name[t], r.menu_items)]
             /\ thrown' = [thrown EXCEPT ![t] = IF r.raised THEN @ \cup {"items"} ELSE @]
             /\ scanned' = [scanned EXCEPT ![t] = r.item_elements]
    /\ pc' = [pc EXCEPT ![t] = "respond"]
    /\ UNCHANGED << scraper, session, body, url, self, restaurant_name, excp, resp,
                    outer, pureVars >>

(***************************************************************************)
(* scrape_menu, from the result to the response                            *)
(***************************************************************************)
\* lines 98-113: the return value is built; jsonify may raise
Respond(t, faulty) ==
    /\ pc[t] = "respond"
    /\ \E fault \in IF faulty THEN BOOLEAN ELSE {FALSE} :
         IF fault
         THEN /\ excp' = [excp EXCEPT ![t] = Exc("response building failed")]
              /\ UNCHANGED resp
         ELSE /\ resp' = [resp EXCEPT ![t] =
                            IF "error" \in result[t].keys
                            THEN Envelope(500, FALSE, JsonNull, Json(result[t].error))
                            ELSE Envelope(200, TRUE, Json(result[t]), JsonNull)]
              /\ UNCHANGED excp
    /\ pc' = [pc EXCEPT ![t] = "finally"]
    /\ UNCHANGED << scraper, session, body, url, self, restaurant_name, result, thrown,
                    outer, logv, scanned, pureVars >>

\* where control goes when the finally block is left
AfterFinally(t) == IF excp[t].raised THEN "except" ELSE "returned"

\* UberEatsScraper.close() on session sid by thread t; quit says whether
\* driver.quit() went through
Close(sid, t, quit) ==
    [session EXCEPT ![sid].closeCalls = @ + 1,
                    ![sid].closers = @ \cup {t},
                    ![sid].driver = IF quit THEN "quit" ELSE @]

\* faulty variant of FinallyCheck: the finally block does not clean up
FinallyCheckSkip(t) ==
    /\ pc[t] = "finally"
    /\ pc' = [pc EXCEPT ![t] = AfterFinally(t)]
    /\ UNCHANGED << scraper, session, body, url, self, restaurant_name, result, excp,
                    resp, thrown, outer, logv, scanned, pureVars >>

\* finally: if scraper:
FinallyCheck(t) ==
    /\ pc[t] = "finally"
    /\ pc' = [pc EXCEPT ![t] = IF scraper # 0 THEN "finally_close" ELSE AfterFinally(t)]
    /\ UNCHANGED << scraper, session, body, url, self, restaurant_name, result, excp,
                    resp, thrown, outer, logv, scanned, pureVars >>

\* finally: scraper.close(); an exception raised here replaces the return
FinallyClose(t) ==
    /\ pc[t] = "finally_close"
    /\ IF scraper = 0
       THEN /\ excp' = [excp EXCEPT ![t] = Exc("'NoneType' object has no attribute")]
            /\ resp' = [resp EXCEPT ![t] = NoResp]
            /\ pc' = [pc EXCEPT ![t] = "except"]
            /\ UNCHANGED session
       ELSE \E quit \in BOOLEAN :
              /\ session' = Close(scraper, t, quit)
              /\ IF quit
                 THEN /\ pc' = [pc EXCEPT ![t] = "finally_clear"]
                      /\ UNCHANGED << excp, resp >>
                 ELSE /\ excp' = [excp EXCEPT ![t] = Exc("quit failed")]
                      /\ resp' = [resp EXCEPT ![t] = NoResp]
                      /\ pc' = [pc EXCEPT ![t] = "except"]
    /\ UNCHANGED << scraper, body, url, self, restaurant_name, result, thrown, outer,
                    logv, scanned, pureVars >>

\* finally: scraper = None
FinallyClear(t) ==
    /\ pc[t] = "finally_clear"
    /\ scraper' = 0
    /\ pc' = [pc EXCEPT ![t] = AfterFinally(t)]
    /\ UNCHANGED << session, body, url, self, restaurant_name, result, excp, resp,
                    thrown, outer, logv, scanned, pureVars >>

\* faulty variant of InternalError: the status is left out of the return
InternalErrorNoStatus(e) ==
    Envelope(200, FALSE, JsonNull, Json("Internal server error: " \o e.msg))

\* the response of the except block
InternalError(e) ==
    Envelope(500, FALSE, JsonNull, Json("Internal server error: " \o e.msg))

\* except Exception: if scraper:
ExceptCheck(t) ==
    /\ pc[t] = "except"
    /\ IF scraper # 0
       THEN /\ pc' = [pc EXCEPT ![t] = "except_close"]
            /\ UNCHANGED << resp, excp >>
       ELSE /\ resp' = [resp EXCEPT ![t] = InternalError(excp[t])]
            /\ excp' = [excp EXCEPT ![t] = NoExc]
            /\ pc' = [pc EXCEPT ![t] = "returned"]
    /\ UNCHANGED << scraper, session, body, url, self, restaurant_name, result, thrown,
                    outer, logv, scanned, pureVars >>

\* except: try: scraper.close() except: pass
ExceptClose(t) ==
    /\ pc[t] = "except_close"
    /\ IF scraper = 0
       THEN UNCHANGED session
       ELSE \E quit \in BOOLEAN : session' = Close(scraper, t, quit)
    /\ pc' = [pc EXCEPT ![t] = "except_clear"]
    /\ UNCHANGED << scraper, body, url, self, restaurant_name, result, excp, resp,
                    thrown, outer, logv, scanned, pureVars >>

\* faulty variant of ExceptClear: the handle is not reset
ExceptClearKeepsHandle(t) ==
    /\ pc[t] = "except_clear"
    /\ resp' = [resp EXCEPT ![t] = InternalError(excp[t])]
    /\ excp' = [excp EXCEPT ![t] = NoExc]
    /\ pc' = [pc EXCEPT ![t] = "returned"]
    /\ UNCHANGED << scraper, session, body, url, self, restaurant_name, result, thrown,
                    outer, logv, scanned, pureVars >>

\* except: scraper = None, and the 500 response
ExceptClear(t) ==
    /\ pc[t] = "except_clear"
    /\ scraper' = 0
    /\ resp' = [resp EXCEPT ![t] = InternalError(excp[t])]
    /\ excp' = [excp EXCEPT ![t] = NoExc]
    /\ pc' = [pc EXCEPT ![t] = "returned"]
    /\ UNCHANGED << session, body, url, self, restaurant_name, result, thrown, outer,
                    logv, scanned, pureVars >>

\* the response is sent; the thread is free for the next request
Finish(t) ==
    /\ pc[t] = "returned"
    /\ pc' = [pc EXCEPT ![t] = "idle"]
    /\ session' = [session EXCEPT ![t] = NoSession]
    /\ body' = [body EXCEPT ![t] = NoBody]
    /\ url' = [url EXCEPT ![t] = ""]
    /\ self' = [self EXCEPT ![t] = 0]
    /\ restaurant_name' = [restaurant_name EXCEPT ![t] = ""]
    /\ result' = [result EXCEPT ![t] = NoResult]
    /\ resp' = [resp EXCEPT ![t] = NoResp]
    /\ thrown' = [thrown EXCEPT ![t] = {}]
    /\ outer' = [outer EXCEPT ![t] = FALSE]
    /\ logv' = [logv EXCEPT ![t] = << >>]
    /\ scanned' = [scanned EXCEPT ![t] = << >>]
    /\ UNCHANGED << scraper, excp, pureVars >>

\* one statement of the handler in thread t, on a body of bodies, loading a
\* page of pages, with or without spontaneous errors of the driver
Step(t, bodies, pages, faulty) ==
    \/ Receive(t, bodies)
    \/ Validate(t)
    \/ Construct(t)
    \/ CallScrape(t)
    \/ Navigate(t, pages, faulty)
    \/ Settle(t)
    \/ Popup(t, faulty)
    \/ Wait(t, faulty)
    \/ Scroll(t, faulty)
    \/ Name(t, faulty)
    \/ Items(t, faulty)
    \/ Respond(t, faulty)
    \/ FinallyCheck(t)
    \/ FinallyClose(t)
    \/ FinallyClear(t)
    \/ ExceptCheck(t)
    \/ ExceptClose(t)
    \/ ExceptClear(t)

(***************************************************************************)
(* Specifications                                                          *)
(***************************************************************************)
\* requests handled one at a time
Next == Step(1, Bodies, Pages, TRUE) \/ Finish(1)

Spec == Init /\ [][Next]_vars

\* two requests handled concurrently, one in each thread; the driver raises
\* only once it was quit, close() may raise at any time
NextRace == \E t \in Threads : Step(t, RaceBodies, RacePages, FALSE)

SpecRace == Init /\ [][NextRace]_vars

(***************************************************************************)
(* The item parser and the image heuristic run on their own                *)
(***************************************************************************)
MaxNodes == 3

SampleNodes ==
    { "#1 most liked", "302 Dumplings", "$7.49 | 89% (192)", "Popular", "  ", "X",
      "Plus small fries", "Pork Bun $5 | spicy",
      "#1 most liked\n302 Dumplings\n$7.49 | 89% (192)" }

SampleImages == { "", CdnImage, PlaceholderImage }

ParseInputs ==
    { Element(q, i, FALSE, FALSE) :
        q \in SeqsUpTo(SampleNodes, MaxNodes) \ { << >> }, i \in SampleImages }
    \cup { Element(<< n >>, CdnImage, st, ~st) : n \in SampleNodes, st \in BOOLEAN }

InitParse ==
    /\ InitHandler
    /\ elem \in ParseInputs
    /\ item = None
    /\ image_url = ""
    /\ image_valid = FALSE
    /\ applied = FALSE

ExtractItemDetails ==
    /\ ~applied
    /\ item' = _extract_item_details(elem, 0)
    /\ applied' = TRUE
    /\ UNCHANGED << handlerVars, elem, image_url, image_valid >>

SpecParse == InitParse /\ [][ExtractItemDetails]_vars

ImageHosts ==
    { "https://tb-static.uber.com", "https://TB-STATIC.UBER.COM",
      "https://cdn.example.com", "data:image/" }
ImagePaths ==
    { "/prod/image-proc/processed_images/", "/images/", "/Default/",
      "/processed_images/missing/" }
ImageFiles ==
    { "ab12cd34", "ab12cd34.jpeg", "PLACEHOLDER.PNG", "photo.webp", "null", "menu.txt" }

ImageUrls ==
    { "" } \cup { h \o p \o f : h \in ImageHosts, p \in ImagePaths, f \in ImageFiles }

InitImage ==
    /\ InitHandler
    /\ elem = Element(<< >>, "", FALSE, FALSE)
    /\ item = None
    /\ image_url \in ImageUrls
    /\ image_valid = FALSE
    /\ applied = FALSE

ValidateImage ==
    /\ ~applied
    /\ image_valid' = _validate_image_fast(image_url)
    /\ applied' = TRUE
    /\ UNCHANGED << handlerVars, elem, item, image_url >>

SpecImage == InitImage /\ [][ValidateImage]_vars

(***************************************************************************)
(* Properties                                                              *)
(***************************************************************************)
ResultKeys == {"url", "restaurant_name", "menu_items", "scraped_at"}
ErrorKeys == {"url", "error", "restaurant_name", "menu_items"}
EnvelopeKeys == {"success", "data", "error", "timestamp"}

\* C1: a request that created a session has called close() on it exactly once
\* when its response is returned, whichever stage failed, close() included.
C1_ClosedExactlyOnce ==
    \A t \in Threads :
        (pc[t] = "returned" /\ session[t].constructed) => session[t].closeCalls = 1

\* the url of the body does not contain the domain: there is no body, no
\* url, or the url is not a string containing 'ubereats.com'
LacksDomain(b) ==
    ~(b.json = "object" /\ b.urlType = "string" /\ Contains(b.url, "ubereats.com"))

\* C2: a request whose url does not contain 'ubereats.com' is answered with
\* status 400 and no UberEatsScraper is constructed for it.
C2_NoDomainGives400 ==
    \A t \in Threads :
        (pc[t] = "returned" /\ LacksDomain(body[t]))
            => /\ resp[t].status = 400
               /\ ~session[t].constructed
               /\ session[t].driver = "none"

\* the items the parser returns for the elements, in element order
RECURSIVE ParsedItems(_, _)
ParsedItems(elements, i) ==
    IF i > Len(elements) THEN << >>
    ELSE LET d == _extract_item_details(elements[i], i - 1)
         IN  (IF d # None /\ d.name # "" THEN << d >> ELSE << >>)
             \o ParsedItems(elements, i + 1)

\* item k of parsed is the first one with its trimmed name
IsFirstOccurrence(parsed, k) ==
    \A j \in 1..(k - 1) : Strip(parsed[j].name) # Strip(parsed[k].name)

\* the subsequence of the first occurrences
RECURSIVE FirstOccurrences(_, _)
FirstOccurrences(parsed, k) ==
    IF k > Len(parsed) THEN << >>
    ELSE (IF IsFirstOccurrence(parsed, k) THEN << parsed[k] >> ELSE << >>)
         \o FirstOccurrences(parsed, k + 1)

\* C3: the menu_items of a result are the first occurrence of each distinct
\* trimmed name among the parsed items, in element order; no two of them
\* share a trimmed name.
C3_FirstOccurrenceKept ==
    \A t \in Threads :
        (pc[t] = "respond" /\ "scraped_at" \in result[t].keys)
            => LET menu == result[t].menu_items
               IN  /\ menu = FirstOccurrences(ParsedItems(scanned[t], 1), 1)
                   /\ \A j, k \in 1..Len(menu) :
                        j # k => Strip(menu[j].name) # Strip(menu[k].name)

\* a page listed a dish twice, around another one, and the copy was dropped
C3_Witness ==
    \E t \in Threads :
        /\ pc[t] = "respond"
        /\ scanned[t] = << Dumplings, Noodles, DumplingsAgain >>
        /\ Len(result[t].menu_items) = 2
        /\ result[t].menu_items[1].price = "$7.49"

\* C4: the image_valid of every item of a scrape result is the value of the
\* image heuristic on its image_url; an image_url containing 'placeholder'
\* has image_valid false.
C4_ImageValidIsHeuristic ==
    \A t \in Threads :
        (pc[t] = "returned" /\ resp[t].status = 200)
            => \A k \in 1..Len(resp[t].data.value.menu_items) :
                 LET it == resp[t].data.value.menu_items[k]
                 IN  /\ it.image_valid = _validate_image_fast(it.image_url)
                     /\ Contains(it.image_url, "placeholder") => ~it.image_valid

\* the url matches the CDN pattern, as the claim states it
MatchesCdnPattern(u) ==
    Contains(u, "tb-static.uber.com") /\ Contains(u, "processed_images")

\* the lower-cased url contains one of the placeholder substrings
HasPlaceholderSubstring(u) ==
    \E w \in {"placeholder", "no-image", "default", "missing", "empty", "null",
              "undefined", "data:image"} : Contains(Lower(u), w)

\* C5 as stated: every url matching the CDN pattern is valid, whatever else
\* it contains.
C5_CdnAlwaysValid ==
    (applied /\ MatchesCdnPattern(image_url)) => image_valid

\* C5 amended: a url matching the CDN pattern is valid unless its lower-cased
\* form contains a placeholder substring.
C5_CdnValidUnlessPlaceholder ==
    (applied /\ MatchesCdnPattern(image_url) /\ ~HasPlaceholderSubstring(image_url))
        => image_valid

\* a CDN url without an image extension was found valid
C5_Witness ==
    /\ applied
    /\ image_url = "https://tb-static.uber.com/prod/image-proc/processed_images/ab12cd34"
    /\ image_valid

PastScrape(t) ==
    /\ self[t] # 0
    /\ pc[t] \in {"respond", "finally", "finally_close", "finally_clear", "except",
                  "except_close", "except_clear", "returned"}

\* C7 as stated: an error of the driver at any step gives the error record,
\* a record carries 'error' exactly when the outer handler ran, and a record
\* without 'error' carries the four keys of a result.
C7_AnyErrorGivesErrorRecord ==
    \A t \in Threads :
        PastScrape(t)
            => /\ thrown[t] # {} => result[t] = ErrorResult(url[t], result[t].error)
               /\ "error" \in result[t].keys <=> outer[t]
               /\ "error" \notin result[t].keys => result[t].keys = ResultKeys

\* C7 amended: scrape_restaurant always returns a record; an error of the
\* driver during navigation or the wait reaches the outer handler and gives
\* the error record, an error during the popup, scroll, name or items step
\* does not; a record carries 'error' exactly when the outer handler ran,
\* and a record without 'error' carries the four keys of a result.
C7_OuterErrorGivesErrorRecord ==
    \A t \in Threads :
        PastScrape(t)
            => /\ result[t].keys \in {ResultKeys, ErrorKeys}
               /\ outer[t] <=> thrown[t] \cap {"navigate", "wait"} # {}
               /\ "error" \in result[t].keys <=> outer[t]
               /\ outer[t] =>
                    /\ result[t].keys = ErrorKeys
                    /\ result[t].url = url[t]
                    /\ result[t].restaurant_name = "Unknown"
                    /\ result[t].menu_items = << >>
               /\ "error" \notin result[t].keys => result[t].keys = ResultKeys

\* the popup step raised and was swallowed, then the wait raised
C7_Witness ==
    \E t \in Threads :
        /\ pc[t] = "respond"
        /\ thrown[t] = {"popup", "wait"}
        /\ "error" \in result[t].keys

\* the body is rejected by the validation of the handler: it is an empty
\* value, or an object whose url is missing, blank or lacks the domain
FailsValidation(b) ==
    \/ b.json \in {"null", "emptyobject"}
    \/ /\ b.json = "object"
       /\ \/ b.urlType = "absent"
          \/ /\ b.urlType = "string"
             /\ Strip(b.url) = "" \/ ~Contains(b.url, "ubereats.com")

\* the body passes the validation of the handler
PassesValidation(b) ==
    b.json = "object" /\ b.urlType = "string" /\ Contains(b.url, "ubereats.com")

Quiescent == \A t \in Threads : pc[t] \in {"idle", "returned"}

\* C9: with two concurrent requests the handle is raced on.  A session is
\* left without any close() call after all requests returned only when the
\* other request constructed a session too; the witness is the interleaving
\* of the claim.
C9_LeakOnlyByRace ==
    \A a \in Threads :
        (Quiescent /\ session[a].constructed /\ session[a].closeCalls = 0)
            => \E b \in Threads \ {a} : session[b].constructed

\* request a closed the session of request b, and its own was never closed
C9_Witness ==
    \E a, b \in Threads :
        /\ a # b
        /\ Quiescent
        /\ session[a].constructed /\ session[b].constructed
        /\ a \in session[b].closers
        /\ session[a].closeCalls = 0

\* the three lines of the example
ExampleLines == << "#1 most liked", "302 Dumplings", "$7.49 | 89% (192)" >>

\* C10: an element whose text flattens to the three lines of the example
\* parses to name '302 Dumplings' and price '$7.49', with a description
\* containing neither the '#1 most liked' line nor the price line.
C10_ExampleParses ==
    (applied /\ ~elem.stale /\ TextLines(FlattenText(elem.nodes)) = ExampleLines)
        => /\ item # None
           /\ item.name = "302 Dumplings"
           /\ item.price = "$7.49"
           /\ ~Contains(item.description, ExampleLines[1])
           /\ ~Contains(item.description, ExampleLines[3])

\* the example, one text node per line, was parsed
C10_Witness ==
    /\ applied
    /\ elem.nodes = ExampleLines
    /\ item # None
    /\ item.name = "302 Dumplings"

\* the step was begun in the scrape of thread t
Began(t, step) == \E k \in 1..Len(logv[t]) : logv[t][k] = step

\* C11: a failure of the popup dismissal, of the wait for an item element (a
\* timeout or any other error of the driver) or of the scroll-load never
\* aborts the scrape: once the page was navigated to, the steps up to the
\* item extraction all run and the result carries no 'error' key.
C11_LoadStepNeverAborts ==
    \A t \in Threads :
        (PastScrape(t) /\ "navigate" \notin thrown[t])
            => /\ "error" \notin result[t].keys
               /\ ~outer[t]
               /\ Began(t, "scroll") /\ Began(t, "name") /\ Began(t, "items")

\* the trimmed name the parser gives the element when the driver does not
\* raise on it, "" when it gives no item
NameOf(e) ==
    LET d == _extract_item_details(Element(e.nodes, e.img, FALSE, FALSE), 0)
    IN  IF d = None THEN "" ELSE Strip(d.name)

\* the names NameOf gives the elements, in element order
RECURSIVE ElementNames(_)
ElementNames(elements) ==
    IF Len(elements) = 0 THEN << >>
    ELSE << NameOf(Head(elements)) >> \o ElementNames(Tail(elements))

\* the positions, among elements named names, that give a named item not
\* seen at an earlier position, the positions in omitted left aside
ExpectedPositions(names, omitted) ==
    { k \in 1..Len(names) :
        /\ k \notin omitted
        /\ names[k] # ""
        /\ \A j \in 1..(k - 1) : j \notin omitted => names[j] # names[k] }

\* menu lists, in element order, exactly the elements at the positions
MenuIsOf(menu, names, positions) ==
    /\ { menu[i].index + 1 : i \in 1..Len(menu) } = positions
    /\ \A i \in 1..Len(menu) :
         /\ menu[i].index + 1 \in 1..Len(names)
         /\ Strip(menu[i].name) = names[menu[i].index + 1]
         /\ \A j \in 1..(i - 1) : menu[j].index < menu[i].index

\* C12 as stated: every element on which the driver raises while it is
\* parsed is omitted, every other element that parses to a named, not yet
\* seen item is in menu_items, in order, and the result has no 'error'.
C12_RaisingElementOmitted ==
    \A t \in Threads :
        (pc[t] = "respond" /\ Began(t, "items"))
            => LET names == ElementNames(scanned[t])
                   raising == { k \in 1..Len(scanned[t]) :
                                  scanned[t][k].stale \/ scanned[t][k].imgRaises }
               IN  /\ result[t].keys = ResultKeys
                   /\ MenuIsOf(result[t].menu_items, names,
                               ExpectedPositions(names, raising))

\* C12 amended: an element on which the text script raises is omitted; an
\* element on which only the image query raises is kept, with an empty
\* image_url; every other element that parses to a named, not yet seen item
\* is in menu_items, in order, and the result has no 'error'.
C12_FailedElementSkipped ==
    \A t \in Threads :
        (pc[t] = "respond" /\ Began(t, "items"))
            => LET names == ElementNames(scanned[t])
                   failed == { k \in 1..Len(scanned[t]) : scanned[t][k].stale }
               IN  /\ result[t].keys = ResultKeys
                   /\ MenuIsOf(result[t].menu_items, names,
                               ExpectedPositions(names, failed))
                   /\ \A i \in 1..Len(result[t].menu_items) :
                        LET it == result[t].menu_items[i]
                        IN  it.image_url =
                              IF scanned[t][it.index + 1].imgRaises THEN ""
                              ELSE scanned[t][it.index + 1].img

\* the text script raised on the second of four elements and the image
\* query on the first: three items, the first without image
C12_Witness ==
    \E t \in Threads :
        /\ pc[t] = "respond"
        /\ scanned[t] = << ImageQueryFails, StaleElement, Dumplings, Noodles >>
        /\ Len(result[t].menu_items) = 3
        /\ result[t].menu_items[1].image_url = ""
        /\ result[t].menu_items[3].index = 3

\* the steps of a scrape, as the claim orders them
StepNames == << "navigate", "settle", "popup", "wait", "scroll", "name", "items" >>

IsStep(x) == x \notin {"bottom", "top"}

\* the steps begun in the scrape of thread t, in the order they were begun
StepsBegun(t) == SelectSeq(logv[t], IsStep)

\* C13: the steps of a scrape begin in the order navigate, settle, popup,
\* wait, scroll, name, items, none twice and none before the one before it;
\* the scroll operations fall between the begin of the scroll step and the
\* begin of the name step; a scrape that ends without error has run each of
\* the seven steps exactly once.
C13_StepsInOrder ==
    \A t \in Threads :
        /\ Len(StepsBegun(t)) <= Len(StepNames)
        /\ StepsBegun(t) = SubSeq(StepNames, 1, Len(StepsBegun(t)))
        /\ \A k \in 1..Len(logv[t]) :
             ~IsStep(logv[t][k])
                => /\ \E j \in 1..(k - 1) : logv[t][j] = "scroll"
                   /\ \A j \in 1..(k - 1) : logv[t][j] # "name"
        /\ (PastScrape(t) /\ "error" \notin result[t].keys) => StepsBegun(t) = StepNames

\* a scrape ended without error after three scrolls to the bottom and one
\* to the top
C13_Witness ==
    \E t \in Threads :
        /\ pc[t] = "returned"
        /\ resp[t].status = 200
        /\ logv[t] = << "navigate", "settle", "popup", "wait", "scroll", "bottom",
                        "bottom", "bottom", "top", "name", "items" >>

\* the trimmed text of the first restaurant-name selector, from selector k
\* on, whose element exists and has text; "" when there is none
RECURSIVE FirstSelectorText(_, _)
FirstSelectorText(page, k) ==
    IF k > Len(RestaurantNameSelectors) THEN ""
    ELSE IF SelectorElement(page, k).present /\ Strip(SelectorElement(page, k).text) # ""
         THEN Strip(SelectorElement(page, k).text)
         ELSE FirstSelectorText(page, k + 1)

\* C14: the restaurant name is the text of the first selector whose element
\* exists and has non-empty trimmed text; else it comes from the page title;
\* else it is 'Unknown Restaurant'; the extraction never raises and the name
\* is never empty.
C14_NameNeverEmpty ==
    \A t \in Threads :
        pc[t] = "items"
            => LET page == session[self[t]].page
                   fromSelector == FirstSelectorText(page, 1)
               IN  /\ restaurant_name[t] # ""
                   /\ ~excp[t].raised /\ ~outer[t]
                   /\ ("name" \notin thrown[t] /\ fromSelector # "")
                        => restaurant_name[t] = fromSelector
                   /\ ("name" \notin thrown[t] /\ fromSelector = "")
                        => \/ restaurant_name[t] = UnknownRestaurant
                           \/ Contains(page.title, restaurant_name[t])

\* the prefixes the claim excludes from names
ExcludedPrefixes == { "$", "#", "Popular", "most liked", "Plus small" }

StartsWithExcluded(line) == \E p \in ExcludedPrefixes : StartsWith(line, p)

\* the first of the lines that starts with none of the excluded prefixes,
\* "" when every line does
RECURSIVE FirstPlainLine(_)
FirstPlainLine(lines) ==
    IF Len(lines) = 0 THEN ""
    ELSE IF ~StartsWithExcluded(lines[1]) THEN lines[1]
    ELSE FirstPlainLine(Tail(lines))

\* C15: the name of a returned item is the first trimmed non-empty line of
\* the element text that starts with none of '$', '#', 'Popular', 'most
\* liked', 'Plus small'; so no returned name starts with one of them.
C15_NameIsFirstPlainLine ==
    (applied /\ item # None)
        => /\ item.name = FirstPlainLine(TextLines(FlattenText(elem.nodes)))
           /\ ~StartsWithExcluded(item.name)

\* the scroll operations issued in the scrape of thread t, in order
ScrollOps(t) == SelectSeq(logv[t], LAMBDA x : ~IsStep(x))

\* the number of scrolls to the bottom among them
Bottoms(t) == Cardinality({ k \in 1..Len(ScrollOps(t)) : ScrollOps(t)[k] = "bottom" })

\* C16 as stated: when the driver does not raise in the scroll-load, at
\* least one and at most three scrolls to the bottom are performed and the
\* last scroll operation is the scroll to the top.
C16_AtLeastOneScroll ==
    \A t \in Threads :
        (Began(t, "scroll") /\ "scroll" \notin thrown[t])
            => /\ Bottoms(t) >= 1
               /\ Bottoms(t) <= ScrollCount
               /\ Len(ScrollOps(t)) > 0
               /\ ScrollOps(t)[Len(ScrollOps(t))] = "top"

\* C16 amended: the scroll-load issues at most three scrolls to the bottom
\* and at most one to the top, the top one last, whether the driver raises
\* or not; when the driver does not raise it issues exactly three scrolls
\* to the bottom and then the scroll to the top on a page that shows an
\* item element, and no scroll operation at all on a page that shows none.
C16_ScrollBounded ==
    \A t \in Threads :
        Began(t, "scroll")
            => /\ Bottoms(t) <= ScrollCount
               /\ \A k \in 1..Len(ScrollOps(t)) :
                    ScrollOps(t)[k] = "top" => k = ScrollCount + 1
               /\ Len(ScrollOps(t)) <= ScrollCount + 1
               /\ "scroll" \notin thrown[t]
                    => ScrollOps(t) = IF Len(session[self[t]].page.items) > 0
                                      THEN << "bottom", "bottom", "bottom", "top" >>
                                      ELSE << >>

\* the driver did not raise and the page was scrolled three times to the
\* bottom and back to the top
C16_Witness ==
    \E t \in Threads :
        /\ pc[t] = "name"
        /\ "scroll" \notin thrown[t]
        /\ Len(session[self[t]].page.items) = 2
        /\ ScrollOps(t) = << "bottom", "bottom", "bottom", "top" >>

\* C17: every driver that was started is quit when the request ends: a
\* request that constructed its session has called close() on it, and a
\* request whose session setup raised after the driver was started has no
\* driver left running.
C17_StartedDriverIsQuit ==
    \A t \in Threads :
        pc[t] = "returned"
            => /\ session[t].constructed => session[t].closeCalls >= 1
               /\ ~session[t].constructed => session[t].driver # "running"

\* no request is inside the part of the handler that holds a session
NoRequestHoldsSession ==
    \A t \in Threads : pc[t] \in {"idle", "validate", "construct", "returned"}

\* C18: with requests handled one at a time the handle is None before a
\* request constructs its session and after the request returned, whatever
\* its outcome; a request only ever uses and closes the session it created.
C18_HandleNoneBetweenRequests ==
    /\ NoRequestHoldsSession => scraper = 0
    /\ \A t \in Threads :
         /\ self[t] \in {0, t}
         /\ session[t].closers \subseteq {t}
         /\ (pc[t] \notin {"idle", "validate", "construct", "returned"})
              => scraper \in {0, t}

\* close() raised in the finally block, the except block closed again and
\* reset the handle
C18_Witness ==
    \E t \in Threads :
        /\ pc[t] = "returned"
        /\ session[t].closeCalls = 2
        /\ scraper = 0

====
